---- MODULE Spec2Model ----
(***************************************************************************)
(* Task organizer (App component): the task store, its write-through to   *)
(* localStorage, the derived views (sort, overdue partition, productivity *)
(* percentage), the notification slot with its auto-dismiss timer, and the *)
(* theme / admin flags.                                                    *)
(*                                                                         *)
(* React state is modelled as the component sees it: a state variable      *)
(* holds the latest value (what a functional updater receives), while      *)
(* `rendered` holds the values of the last render, which are the values    *)
(* the handlers close over and the memos and effects are computed from.    *)
(*                                                                         *)
(* Strings that the code trims and lower-cases are sequences of one-       *)
(* character strings.  Time has two scales: `now` is the wall clock in     *)
(* coarse units (UnitsPerDay of them per day), and the notification timer  *)
(* counts whole seconds.                                                   *)
(***************************************************************************)
EXTENDS Integers, Sequences, FiniteSets, TLC

VARIABLES
    localStorage,   \* key -> stored text; a key that was never set is absent
    tasks,          \* state `tasks` (latest value), the items when it is an array
    tasksType,      \* JS type of the `tasks` value: "array", "null" or "object"
    notification,   \* state `notification`: a message or Null
    currentTime,    \* state `currentTime`
    isAdmin,        \* state `isAdmin`
    theme,          \* state `theme`
    rendered,       \* values of the last render: [tasks, notification, currentTime, theme]
    timer,          \* pending auto-dismiss timeout: <<>> or <<seconds left>>
    crashed,        \* a render threw and the tree was unmounted
    now,            \* wall clock, in coarse units
    nextId,         \* number of the next identifier crypto.randomUUID() returns
    batch,          \* handler calls since the last render (React batches them)
    sinceSet        \* observer: seconds since setNotification(message) was last called

vars == <<localStorage, tasks, tasksType, notification, currentTime, isAdmin,
          theme, rendered, timer, crashed, now, nextId, batch, sinceSet>>

----------------------------------------------------------------------------
(* Bounds *)

\* identifiers handed out in one behaviour (number of successful adds)
MaxIds == 2
\* handler calls React batches into one render
MaxBatch == 2
\* last value of the coarse wall clock
MaxNow == 2
\* coarse clock units per calendar day
UnitsPerDay == 1
\* tasks in a collection found in storage at the first start
MaxLoaded == 2

(* Program constants *)

\* setTimeout(..., 4000): auto-dismiss delay, in seconds
NotifDelay == 4

----------------------------------------------------------------------------
(* Values *)

Null == "null"
Undefined == "undefined"

Priorities == {"high", "medium", "low"}

\* the three messages addTask sets
MsgAdminOn == "admin mode on"
MsgAdminOff == "admin mode off"
MsgDuplicate == "task already exists"

TaskKeys == {"id", "text", "completed", "createdAt", "priority", "dueDate"}

\* obj.key, which is undefined for a key the object does not have
Field(obj, key) == IF key \in DOMAIN obj THEN obj[key] ELSE Undefined

----------------------------------------------------------------------------
(* String.prototype.trim and toLowerCase on character sequences *)

IsSpace(c) == c = " "

RECURSIVE TrimStart(_)
TrimStart(s) ==
    IF s = <<>> THEN <<>>
    ELSE IF IsSpace(Head(s)) THEN TrimStart(Tail(s)) ELSE s

RECURSIVE TrimEnd(_)
TrimEnd(s) ==
    IF s = <<>> THEN <<>>
    ELSE IF IsSpace(s[Len(s)]) THEN TrimEnd(SubSeq(s, 1, Len(s) - 1)) ELSE s

Trim(s) == TrimEnd(TrimStart(s))

LowerChar(c) ==
    CASE c = "A" -> "a"
      [] c = "B" -> "b"
      [] c = "D" -> "d"
      [] c = "I" -> "i"
      [] c = "M" -> "m"
      [] c = "N" -> "n"
      [] c = "U" -> "u"
      [] OTHER -> c

\* mutant: the text is compared as typed
NoLowerCase(s) == s

ToLowerCase(s) == [i \in 1..Len(s) |-> LowerChar(s[i])]

----------------------------------------------------------------------------
(* Dates: a "YYYY-MM-DD" string parses to UTC midnight of that day *)

DueDates == {"1970-01-01", "1970-01-02"}

\* days since the epoch
DayOf(d) ==
    CASE d = "1970-01-01" -> 0
      [] d = "1970-01-02" -> 1

\* new Date(dueDate).getTime(), in coarse clock units
ParseDate(d) == DayOf(d) * UnitsPerDay

----------------------------------------------------------------------------
(* JSON.stringify / JSON.parse of the task collection.  A stored text is   *)
(* [kind |-> "array", items |-> <<object, ...>>] for the text of an array, *)
(* or one of the texts below that are not the text of an array.            *)

TextEmpty == [kind |-> "empty"]      \* ""
TextJunk == [kind |-> "junk"]        \* text JSON.parse throws on
TextNull == [kind |-> "null"]        \* "null"
TextObject == [kind |-> "object"]    \* "{}"

\* JSON.stringify of one task: a key whose value is undefined is left out
StringifyTask(t) ==
    [k \in {key \in DOMAIN t : key # "dueDate" \/ t[key] # Undefined} |-> t[k]]

\* JSON.stringify(tasks)
Stringify(ts) ==
    [kind |-> "array", items |-> [i \in 1..Len(ts) |-> StringifyTask(ts[i])]]

\* the tasks initializer: [type, items] of the value `tasks` starts with
LoadTasks(ls) ==
    IF "tasks" \notin DOMAIN ls THEN [type |-> "array", items |-> <<>>]
    ELSE LET saved == ls["tasks"] IN
         CASE saved.kind = "empty" -> [type |-> "array", items |-> <<>>]
           [] saved.kind = "junk" -> [type |-> "array", items |-> <<>>]
           [] saved.kind = "null" -> [type |-> "null", items |-> <<>>]
           [] saved.kind = "object" -> [type |-> "object", items |-> <<>>]
           [] saved.kind = "array" -> [type |-> "array", items |-> saved.items]

\* the theme initializer
LoadTheme(ls, prefersDark) ==
    IF "theme" \in DOMAIN ls THEN ls["theme"]
    ELSE IF prefersDark THEN "dark" ELSE "light"

\* localStorage.setItem(key, value)
SetItem(ls, key, value) ==
    [k \in DOMAIN ls \cup {key} |-> IF k = key THEN value ELSE ls[k]]

----------------------------------------------------------------------------
(* Derived views: pure functions of the rendered collection and time *)

\* priorityOrder
PriorityOrder(p) ==
    CASE p = "high" -> 1
      [] p = "medium" -> 2
      [] p = "low" -> 3

\* mutant: oldest first among equal priorities
CompareCreatedOldestFirst(a, b) ==
    LET priorityDiff == PriorityOrder(a.priority) - PriorityOrder(b.priority) IN
    IF priorityDiff # 0 THEN priorityDiff ELSE a.createdAt - b.createdAt

\* comparator of sortedTasks: priority rank, then newest first
CompareCreated(a, b) ==
    LET priorityDiff == PriorityOrder(a.priority) - PriorityOrder(b.priority) IN
    IF priorityDiff # 0 THEN priorityDiff ELSE b.createdAt - a.createdAt

\* comparator of overdueTasksList.sort: priority rank, then soonest due first
CompareDue(a, b) ==
    LET priorityDiff == PriorityOrder(a.priority) - PriorityOrder(b.priority) IN
    IF priorityDiff # 0 THEN priorityDiff
    ELSE ParseDate(Field(a, "dueDate")) - ParseDate(Field(b, "dueDate"))

Compare(byDue, a, b) == IF byDue THEN CompareDue(a, b) ELSE CompareCreated(a, b)

\* Array.prototype.sort is stable: x goes behind every element not after it
RECURSIVE InsertSorted(_, _, _)
InsertSorted(byDue, x, s) ==
    IF s = <<>> THEN <<x>>
    ELSE IF Compare(byDue, Head(s), x) > 0 THEN <<x>> \o s
    ELSE <<Head(s)>> \o InsertSorted(byDue, x, Tail(s))

RECURSIVE SortPrefix(_, _, _)
SortPrefix(byDue, s, n) ==
    IF n = 0 THEN <<>>
    ELSE InsertSorted(byDue, s[n], SortPrefix(byDue, s, n - 1))

Sort(byDue, s) == SortPrefix(byDue, s, Len(s))

\* sortedTasks
SortedTasks(ts) == Sort(FALSE, ts)

\* mutant: a task due exactly at the current time counts as overdue
IsOverdueInclusive(task, time) ==
    /\ ~task.completed
    /\ Field(task, "dueDate") # Undefined
    /\ ParseDate(Field(task, "dueDate")) <= time

\* isOverdue
IsOverdue(task, time) ==
    /\ ~task.completed
    /\ Field(task, "dueDate") # Undefined
    /\ ParseDate(Field(task, "dueDate")) < time

\* overdueTasks
OverdueTasks(ts, time) ==
    Sort(TRUE, SelectSeq(SortedTasks(ts), LAMBDA task : IsOverdue(task, time)))

\* todayTasks (the upcoming list)
TodayTasks(ts, time) ==
    SelectSeq(SortedTasks(ts), LAMBDA task : ~IsOverdue(task, time))

\* mutant: Math.floor in place of Math.round
FloorDiv(num, den) == num \div den

\* Math.round(x) for x = num / den >= 0: floor(x + 1/2)
RoundDiv(num, den) == (2 * num + den) \div (2 * den)

\* productivityPercentage
ProductivityPercentage(ts, time) ==
    LET allTasks == TodayTasks(ts, time) \o OverdueTasks(ts, time)
        completedTasks == Len(SelectSeq(TodayTasks(ts, time), LAMBDA task : task.completed))
    IN  IF Len(allTasks) = 0 THEN 100
        ELSE RoundDiv(completedTasks * 100, Len(allTasks))

\* what the last render shows
todayTasks == TodayTasks(rendered.tasks, rendered.currentTime)
overdueTasks == OverdueTasks(rendered.tasks, rendered.currentTime)
productivityPercentage == ProductivityPercentage(rendered.tasks, rendered.currentTime)

----------------------------------------------------------------------------
(* Inputs *)

\* submissions of the add-task form <<text, priority, dueDate>>: a blank text,
\* and three task texts of which two differ in case and padding only; the due
\* date left out, empty or set
TaskInputs ==
    { << <<" ", " ">>, "medium", Undefined >>,
      << <<"a">>, "high", Undefined >>,
      << <<" ", "A", " ">>, "low", "" >>,
      << <<"b">>, "medium", "1970-01-01" >> }

\* the reserved commands in two spellings each
CommandTexts ==
    { <<"a", "d", "m", "i", "n">>, <<" ", "A", "d", "M", "I", "N", " ">>,
      <<"u", "n", "a", "d", "m", "i", "n">>, <<"U", "N", "a", "d", "m", "i", "n", " ">> }

Ids == 1..MaxIds

Admin == <<"a", "d", "m", "i", "n">>
Unadmin == <<"u", "n", "a", "d", "m", "i", "n">>

\* newTask of addTask
NewTask(id, trimmedText, priority, dueDate, createdAt) ==
    [ id |-> id, text |-> trimmedText, completed |-> FALSE, createdAt |-> createdAt,
      priority |-> priority, dueDate |-> IF dueDate = "" THEN Undefined ELSE dueDate ]

----------------------------------------------------------------------------
(* Mount: the state initializers, the first render and its effects *)

Mount(ls, clock, prefersDark) ==
    LET loaded == LoadTasks(ls)
        th == LoadTheme(ls, prefersDark)
        throws == loaded.type # "array"    \* [...tasks] of a value that is not iterable
    IN  [ tasks |-> loaded.items,
          tasksType |-> loaded.type,
          theme |-> th,
          currentTime |-> clock,
          crashed |-> throws,
          rendered |-> [tasks |-> loaded.items, notification |-> Null,
                        currentTime |-> clock, theme |-> th],
          localStorage |->
              IF throws THEN ls
              ELSE SetItem(SetItem(ls, "theme", th), "tasks", Stringify(loaded.items)) ]

\* the state a mount leaves; `m` is the record Mount computes
Mounted(m) ==
    /\ tasks = m.tasks
    /\ tasksType = m.tasksType
    /\ theme = m.theme
    /\ currentTime = m.currentTime
    /\ crashed = m.crashed
    /\ rendered = m.rendered
    /\ localStorage = m.localStorage
    /\ notification = Null
    /\ isAdmin = FALSE
    /\ timer = <<>>
    /\ batch = 0
    /\ sinceSet = 0

\* first start: nothing is stored yet
Init ==
    /\ now = 0
    /\ nextId = 1
    /\ \E prefersDark \in BOOLEAN : Mounted(Mount(<<>>, 0, prefersDark))

\* first start on a host that prefers the light colour scheme
InitLight ==
    /\ now = 0
    /\ nextId = 1
    /\ Mounted(Mount(<<>>, 0, FALSE))

\* text of the i-th task of a stored collection: "b", "bb", ...
StoredText(i) == [j \in 1..i |-> "b"]

\* the task objects a stored collection may hold at place i, of the highest or
\* the lowest priority, created in the clock unit of the start or the one before
StoredTasks(i) ==
    { [StringifyTask(NewTask(i, StoredText(i), priority, dueDate, createdAt))
          EXCEPT !.completed = completed]
        : priority \in {"high", "low"}, dueDate \in {Undefined} \cup DueDates,
          createdAt \in {0, 1}, completed \in BOOLEAN }

\* the collections of at most n tasks an earlier session may have stored
RECURSIVE StoredCollections(_)
StoredCollections(n) ==
    IF n = 0 THEN {<<>>}
    ELSE LET shorter == StoredCollections(n - 1) IN
         shorter \cup
         { Append(c, t) : c \in {x \in shorter : Len(x) = n - 1}, t \in StoredTasks(n) }

\* priorities [low, high, medium, high] created at increasing timestamps,
\* stored newest first
ExampleSort ==
    << StringifyTask(NewTask(4, StoredText(4), "high", Undefined, 1)),
       StringifyTask(NewTask(3, StoredText(3), "medium", Undefined, 0)),
       StringifyTask(NewTask(2, StoredText(2), "high", Undefined, -1)),
       StringifyTask(NewTask(1, StoredText(1), "low", Undefined, -2)) >>

\* three tasks, one due at the midnight the session starts at and two without
\* a due date, completed or not
ExampleProductivity ==
    { << StringifyTask(NewTask(3, StoredText(3), "high", "1970-01-02", 0)),
         [StringifyTask(NewTask(2, StoredText(2), "medium", Undefined, 0))
             EXCEPT !.completed = done2],
         [StringifyTask(NewTask(1, StoredText(1), "low", Undefined, 0))
             EXCEPT !.completed = done1] >> : done2, done1 \in BOOLEAN }

\* a later start, at clock unit 1: an earlier session left a collection and a theme
InitStored ==
    /\ now = 1
    /\ \E c \in StoredCollections(MaxLoaded) \cup {ExampleSort} \cup ExampleProductivity :
          /\ nextId = Len(c) + 1
          /\ Mounted(Mount([tasks |-> [kind |-> "array", items |-> c], theme |-> "light"],
                           now, FALSE))

\* a start from any content of the 'tasks' entry
InitAnyContent ==
    /\ now = 0
    /\ nextId = 1
    /\ \E ls \in {<<>>} \cup
                 { [tasks |-> text] : text \in {TextEmpty, TextJunk, TextNull, TextObject} } :
          Mounted(Mount(ls, now, FALSE))

----------------------------------------------------------------------------
(* Handlers.  Each runs in a batch: its state updates are rendered by the  *)
(* next Render.                                                            *)

\* state updates wait for a render
Pending == batch > 0

InBatch ==
    /\ ~crashed
    /\ batch < MaxBatch
    /\ batch' = batch + 1

\* setNotification(message)
SetNotification(message) ==
    /\ notification' = message
    /\ sinceSet' = 0

\* tasks.some(task => task.text.trim().toLowerCase() === trimmedText.toLowerCase())
HasDuplicate(ts, trimmedText) ==
    \E i \in 1..Len(ts) : ToLowerCase(Trim(ts[i].text)) = ToLowerCase(trimmedText)

\* the collection addTask checks for a duplicate: `tasks` of its closure
ClosureTasks == rendered.tasks

addTask(text, priority, dueDate) ==
    LET trimmedText == Trim(text)
        commandText == ToLowerCase(trimmedText)
    IN  /\ InBatch
        /\ IF trimmedText = <<>> THEN
               UNCHANGED <<tasks, notification, sinceSet, isAdmin, nextId>>
           ELSE IF commandText = Admin THEN
               /\ isAdmin' = TRUE
               /\ SetNotification(MsgAdminOn)
               /\ UNCHANGED <<tasks, nextId>>
           ELSE IF commandText = Unadmin THEN
               /\ isAdmin' = FALSE
               /\ SetNotification(MsgAdminOff)
               /\ UNCHANGED <<tasks, nextId>>
           ELSE IF HasDuplicate(ClosureTasks, trimmedText) THEN
               /\ SetNotification(MsgDuplicate)
               /\ UNCHANGED <<tasks, isAdmin, nextId>>
           ELSE
               /\ nextId <= MaxIds
               /\ tasks' = <<NewTask(nextId, trimmedText, priority, dueDate, now)>> \o tasks
               /\ nextId' = nextId + 1
               /\ UNCHANGED <<notification, sinceSet, isAdmin>>
        /\ UNCHANGED <<localStorage, tasksType, currentTime, theme, rendered, timer,
                       crashed, now>>

\* mutant: the flag is set, not flipped
ToggleInSetsCompleted(ts, id) ==
    [i \in 1..Len(ts) |->
        IF ts[i].id = id THEN [ts[i] EXCEPT !.completed = TRUE] ELSE ts[i]]

\* prevTasks.map(task => task.id === id ? {...task, completed: !task.completed} : task)
ToggleIn(ts, id) ==
    [i \in 1..Len(ts) |->
        IF ts[i].id = id THEN [ts[i] EXCEPT !.completed = ~@] ELSE ts[i]]

toggleTask(id) ==
    /\ InBatch
    /\ tasks' = ToggleIn(tasks, id)
    /\ UNCHANGED <<localStorage, tasksType, notification, currentTime, isAdmin, theme,
                   rendered, timer, crashed, now, nextId, sinceSet>>

\* mutant: the filter keeps the task with the id and drops the others
DeleteInKeepsMatch(ts, id) == SelectSeq(ts, LAMBDA task : task.id = id)

\* prevTasks.filter(task => task.id !== id)
DeleteIn(ts, id) == SelectSeq(ts, LAMBDA task : task.id # id)

deleteTask(id) ==
    /\ InBatch
    /\ tasks' = DeleteIn(tasks, id)
    /\ UNCHANGED <<localStorage, tasksType, notification, currentTime, isAdmin, theme,
                   rendered, timer, crashed, now, nextId, sinceSet>>

toggleTheme ==
    /\ InBatch
    /\ theme' = IF theme = "dark" THEN "light" ELSE "dark"
    /\ UNCHANGED <<localStorage, tasks, tasksType, notification, currentTime, isAdmin,
                   rendered, timer, crashed, now, nextId, sinceSet>>

\* the Notification component's onClose, offered while a message is shown
Dismiss ==
    /\ InBatch
    /\ rendered.notification # Null
    /\ notification' = Null
    /\ UNCHANGED <<localStorage, tasks, tasksType, currentTime, isAdmin, theme,
                   rendered, timer, crashed, now, nextId, sinceSet>>

\* the setInterval callback: setCurrentTime(new Date())
Tick ==
    /\ ~Pending
    /\ InBatch
    /\ currentTime' = now
    /\ UNCHANGED <<localStorage, tasks, tasksType, notification, isAdmin, theme,
                   rendered, timer, crashed, now, nextId, sinceSet>>

\* the setTimeout callback: setNotification(null)
Timeout ==
    /\ ~Pending
    /\ InBatch
    /\ timer = <<0>>
    /\ notification' = Null
    /\ timer' = <<>>
    /\ UNCHANGED <<localStorage, tasks, tasksType, currentTime, isAdmin, theme,
                   rendered, crashed, now, nextId, sinceSet>>

\* mutant: the effect writes the collection of the render before
PersistTasksStale(ls, ts) == SetItem(ls, "tasks", Stringify(rendered.tasks))

\* the tasks effect: localStorage.setItem('tasks', JSON.stringify(tasks))
PersistTasks(ls, ts) == SetItem(ls, "tasks", Stringify(ts))

\* the theme effect: localStorage.setItem('theme', theme)
PersistTheme(ls, th) == SetItem(ls, "theme", th)

\* the notification effect: the cleanup clears the old timeout, a message arms a new one
ArmTimer(message) == IF message # Null THEN <<NotifDelay>> ELSE <<>>

\* a render and the effects whose dependencies changed
Render ==
    /\ ~crashed
    /\ Pending
    /\ batch' = 0
    /\ rendered' = [tasks |-> tasks, notification |-> notification,
                    currentTime |-> currentTime, theme |-> theme]
    /\ localStorage' =
          LET afterTheme == IF theme # rendered.theme
                            THEN PersistTheme(localStorage, theme)
                            ELSE localStorage
          IN  IF tasks # rendered.tasks
              THEN PersistTasks(afterTheme, tasks)
              ELSE afterTheme
    /\ timer' = IF notification = rendered.notification THEN timer
                ELSE ArmTimer(notification)
    /\ UNCHANGED <<tasks, tasksType, notification, currentTime, isAdmin, theme,
                   crashed, now, nextId, sinceSet>>

----------------------------------------------------------------------------
(* Environment *)

\* one second passes while a timeout is pending; a render and a due
\* timeout run before it does
Second ==
    /\ ~crashed
    /\ ~Pending
    /\ timer # <<>>
    /\ timer # <<0>>
    /\ timer' = <<timer[1] - 1>>
    /\ sinceSet' = sinceSet + 1
    /\ UNCHANGED <<localStorage, tasks, tasksType, notification, currentTime, isAdmin,
                   theme, rendered, crashed, now, nextId, batch>>

\* the wall clock moves on by one coarse unit
AdvanceClock ==
    /\ ~Pending
    /\ now < MaxNow
    /\ now' = now + 1
    /\ UNCHANGED <<localStorage, tasks, tasksType, notification, currentTime, isAdmin,
                   theme, rendered, timer, crashed, nextId, batch, sinceSet>>

\* the page is loaded again: a new mount from what is stored
Reload ==
    /\ ~Pending
    /\ \E prefersDark \in BOOLEAN :
          LET m == Mount(localStorage, now, prefersDark) IN
          /\ tasks' = m.tasks
          /\ tasksType' = m.tasksType
          /\ theme' = m.theme
          /\ currentTime' = m.currentTime
          /\ crashed' = m.crashed
          /\ rendered' = m.rendered
          /\ localStorage' = m.localStorage
    /\ notification' = Null
    /\ isAdmin' = FALSE
    /\ timer' = <<>>
    /\ sinceSet' = 0
    /\ UNCHANGED <<now, nextId, batch>>

----------------------------------------------------------------------------
(* Specifications *)

\* every operation of the user, the clock tick and a reload, within the
\* minute the session started in
Next ==
    \/ \E text \in CommandTexts \cup {<<"a">>, <<" ", " ">>} :
          addTask(text, "high", Undefined)
    \/ \E id \in Ids : toggleTask(id)
    \/ \E id \in Ids : deleteTask(id)
    \/ toggleTheme
    \/ Dismiss
    \/ Tick
    \/ Render
    \/ Reload

Spec == Init /\ [][Next]_vars

\* the task store and its write-through
NextStore ==
    \/ \E input \in TaskInputs : addTask(input[1], input[2], input[3])
    \/ \E id \in Ids : toggleTask(id)
    \/ \E id \in Ids : deleteTask(id)
    \/ Render
    \/ Reload

SpecStore == InitLight /\ [][NextStore]_vars

\* the notification slot and its timer
NextNotification ==
    \/ \E text \in CommandTexts \cup {<<"a">>, <<" ", "A", " ">>} :
          addTask(text, "high", Undefined)
    \/ Dismiss
    \/ Timeout
    \/ Render
    \/ Second

SpecNotification == InitLight /\ [][NextNotification]_vars

\* the derived views of a stored collection as the clock moves, with no
\* action of the user
NextView ==
    \/ Tick
    \/ Render
    \/ AdvanceClock

SpecView == InitStored /\ [][NextView]_vars

\* starts and restarts from any stored content
NextLoad ==
    \/ addTask(<<"a">>, "high", Undefined)
    \/ \E id \in Ids : toggleTask(id)
    \/ \E id \in Ids : deleteTask(id)
    \/ toggleTheme
    \/ Render
    \/ Reload

SpecLoad == InitAnyContent /\ [][NextLoad]_vars

----------------------------------------------------------------------------
(* Properties *)

\* trimmed, lower-cased text
Folded(text) == ToLowerCase(Trim(text))

\* C1: starting from an empty collection, after any sequence of add, toggle
\* and delete events, two adds before the next render included, no two tasks
\* of the collection have equal trimmed, lower-cased text.
C1_NoDuplicateTexts ==
    \A i, j \in 1..Len(tasks) :
        i # j => Folded(tasks[i].text) # Folded(tasks[j].text)

\* two values of a task field are equal; a key an object lacks reads undefined
SameField(a, b, key) ==
    IF key \in DOMAIN a /\ key \in DOMAIN b THEN a[key] = b[key]
    ELSE IF key \in DOMAIN a THEN key = "dueDate" /\ a[key] = Undefined
    ELSE IF key \in DOMAIN b THEN key = "dueDate" /\ b[key] = Undefined
    ELSE TRUE

SameCollection(xs, ys) ==
    /\ Len(xs) = Len(ys)
    /\ \A i \in 1..Len(xs) : \A key \in TaskKeys : SameField(xs[i], ys[i], key)

\* C2: once the write-through of the latest mutation has run, what is stored
\* under 'tasks' deserializes to a collection equal to the one in memory,
\* field for field and in the same order, so a restart reconstructs it.
C2_StoredEqualsMemory ==
    (~Pending /\ ~crashed) =>
        /\ "tasks" \in DOMAIN localStorage
        /\ LoadTasks(localStorage).type = "array"
        /\ SameCollection(LoadTasks(localStorage).items, tasks)
        /\ \A i, j \in 1..Len(localStorage["tasks"].items) :
              i < j => localStorage["tasks"].items[i].id > localStorage["tasks"].items[j].id

\* C2 witness: after a restart (the older task has lost its undefined
\* dueDate key), a second add with a due date and a toggle were written through
C2_Witness ==
    /\ ~Pending
    /\ Len(tasks) = 2
    /\ tasks[1].completed
    /\ Field(tasks[1], "dueDate") \in DueDates
    /\ "dueDate" \notin DOMAIN tasks[2]

\* C3: the timer clears the slot exactly 4 seconds after a message was last
\* set, whatever its text: never earlier, and a message never stays longer.
C3_ClearedFourSecondsAfterLastSet ==
    /\ [](notification # Null => sinceSet <= NotifDelay)
    /\ [][Timeout => sinceSet = NotifDelay]_vars

\* s without its k-th element
RemoveAt(s, k) == SubSeq(s, 1, k - 1) \o SubSeq(s, k + 1, Len(s))

C5_ToggleFlipsOnlyCompleted ==
    [][\A id \in Ids :
          toggleTask(id) =>
              /\ Len(tasks') = Len(tasks)
              /\ \A i \in 1..Len(tasks) :
                    IF tasks[i].id = id
                    THEN /\ tasks'[i].completed = ~tasks[i].completed
                         /\ DOMAIN tasks'[i] = DOMAIN tasks[i]
                         /\ \A key \in DOMAIN tasks[i] \ {"completed"} :
                               tasks'[i][key] = tasks[i][key]
                    ELSE tasks'[i] = tasks[i]
              /\ ToggleIn(tasks', id) = tasks
              /\ notification' = notification]_vars

\* C5 witness: of two rendered tasks the newer was toggled, the older is as
\* it was added
C5_Witness ==
    /\ Len(tasks) = 2
    /\ tasks[1].completed
    /\ ~tasks[2].completed
    /\ rendered.tasks = tasks

\* the place of the task with this id in a list, as a set
Places(list, id) == {i \in 1..Len(list) : list[i].id = id}

\* C6: the overdue list and the upcoming list partition the rendered
\* collection, and a task is overdue exactly if it is not completed, has a
\* due date, and that date is strictly before the rendered current time.
C6_OverduePartition ==
    LET ts == rendered.tasks
        time == rendered.currentTime
    IN  /\ Len(overdueTasks) + Len(todayTasks) = Len(ts)
        /\ \A i \in 1..Len(ts) :
              LET due == IF "dueDate" \in DOMAIN ts[i] THEN ts[i].dueDate ELSE Undefined
                  late == /\ ~ts[i].completed
                          /\ due # Undefined
                          /\ DayOf(due) * UnitsPerDay < time
              IN  /\ Cardinality(Places(overdueTasks, ts[i].id)) = (IF late THEN 1 ELSE 0)
                  /\ Cardinality(Places(todayTasks, ts[i].id)) = (IF late THEN 0 ELSE 1)
                  /\ \A k \in Places(overdueTasks, ts[i].id) : overdueTasks[k] = ts[i]
                  /\ \A k \in Places(todayTasks, ts[i].id) : todayTasks[k] = ts[i]

\* C6 witness: a task due at the midnight the session started at is overdue
\* after the clock moved on and ticked, while a completed task due earlier and
\* a task without due date are upcoming
C6_Witness ==
    /\ rendered.currentTime = DayOf("1970-01-02") * UnitsPerDay + 1
    /\ \E k \in 1..Len(overdueTasks) : overdueTasks[k].dueDate = "1970-01-02"
    /\ \E k \in 1..Len(todayTasks) :
          /\ todayTasks[k].completed
          /\ Field(todayTasks[k], "dueDate") = "1970-01-01"

\* p is num / den rounded to the nearest integer, halves up
IsRounded(p, num, den) == (2 * p - 1) * den <= 2 * num /\ 2 * num < (2 * p + 1) * den

CountCompleted(list) == Cardinality({i \in 1..Len(list) : list[i].completed})

Rank(task) ==
    IF task.priority = "high" THEN 1 ELSE IF task.priority = "medium" THEN 2 ELSE 3

\* C8: the upcoming list is ordered by priority rank, ties newest first; the
\* overdue list by priority rank, ties soonest due first; whatever the
\* order of the stored collection.
C8_PresentationOrder ==
    /\ \A i, j \in 1..Len(todayTasks) :
          i < j =>
              \/ Rank(todayTasks[i]) < Rank(todayTasks[j])
              \/ /\ Rank(todayTasks[i]) = Rank(todayTasks[j])
                 /\ todayTasks[i].createdAt >= todayTasks[j].createdAt
    /\ \A i, j \in 1..Len(overdueTasks) :
          i < j =>
              \/ Rank(overdueTasks[i]) < Rank(overdueTasks[j])
              \/ /\ Rank(overdueTasks[i]) = Rank(overdueTasks[j])
                 /\ DayOf(overdueTasks[i].dueDate) <= DayOf(overdueTasks[j].dueDate)
    /\ [i \in 1..Len(rendered.tasks) |-> rendered.tasks[i].priority]
            = <<"high", "medium", "high", "low">>
          /\ (\A i \in 1..3 : rendered.tasks[i].createdAt > rendered.tasks[i + 1].createdAt)
          /\ Len(overdueTasks) = 0
          => todayTasks = <<rendered.tasks[1], rendered.tasks[3],
                            rendered.tasks[2], rendered.tasks[4]>>

\* C8 witness: [low, high, medium, high] created at increasing timestamps are
\* shown as [high (newest), high (older), medium, low], also once the clock
\* ticked
C8_Witness ==
    /\ Len(todayTasks) = 4
    /\ rendered.currentTime > 1
    /\ [i \in 1..4 |-> todayTasks[i].priority] = <<"high", "high", "medium", "low">>
    /\ todayTasks[1].createdAt > todayTasks[2].createdAt
    /\ todayTasks[2].createdAt < todayTasks[3].createdAt
    /\ todayTasks[3].createdAt > todayTasks[4].createdAt

\* C9: whatever the stored 'tasks' entry holds, after a start the collection
\* in memory is a sequence of tasks, the render does not fail, and no
\* notification is shown.
C9_LoadGivesRenderableCollection ==
    /\ tasksType = "array"
    /\ ~crashed
    /\ (notification # Null => nextId > 1)

\* spellings of the two reserved commands
AdminSpellings == { <<"a", "d", "m", "i", "n">>, <<" ", "A", "d", "M", "I", "N", " ">> }
UnadminSpellings ==
    { <<"u", "n", "a", "d", "m", "i", "n">>, <<"U", "N", "a", "d", "m", "i", "n", " ">> }

\* C10: 'admin' sets the admin flag and 'unadmin' clears it, with a
\* notification and without touching the collection or what is stored; the
\* flag is false at a start, changed by nothing else, and never stored.
C10_AdminFlag ==
    /\ isAdmin = FALSE
    /\ [](DOMAIN localStorage \subseteq {"tasks", "theme"})
    /\ [][/\ \A text \in AdminSpellings :
                addTask(text, "high", Undefined) =>
                    /\ isAdmin' = TRUE
                    /\ notification' = MsgAdminOn
                    /\ tasks' = tasks /\ localStorage' = localStorage
          /\ \A text \in UnadminSpellings :
                addTask(text, "high", Undefined) =>
                    /\ isAdmin' = FALSE
                    /\ notification' = MsgAdminOff
                    /\ tasks' = tasks /\ localStorage' = localStorage
          /\ isAdmin' # isAdmin =>
                /\ localStorage' = localStorage
                /\ \/ \E text \in AdminSpellings \cup UnadminSpellings :
                         addTask(text, "high", Undefined)
                   \/ Reload /\ isAdmin' = FALSE]_vars

\* C10 witness: the flag is set by a command although no task exists, and
\* nothing but the empty collection is stored
C10_Witness ==
    /\ isAdmin
    /\ notification = MsgAdminOn
    /\ tasks = <<>>
    /\ nextId = 1
    /\ ~Pending
    /\ LoadTasks(localStorage).items = <<>>

====
